---- MODULE Spec2Model ----
(***************************************************************************)
(* Model of the scan controller of src/src/components/QRScanner.ts         *)
(* (setupQRScanner): camera start/stop, the decoder callback, the          *)
(* duplicate-read memory, the validate request, the confirm panel and the  *)
(* apply request.                                                          *)
(*                                                                         *)
(* One action is one browser task: an event handler or a promise           *)
(* continuation, run from its entry to its next await on I/O (fetch,       *)
(* camera).  Awaits on async functions that contain no await themselves    *)
(* (pauseAndHideCamera, stop) only defer to the microtask queue and are    *)
(* part of the same action.                                                *)
(*                                                                         *)
(* The program state is gathered in the record St; the procedures of the   *)
(* source are operators from state records to state records, so that a     *)
(* handler that calls stop() and then start() is start(stop(s)).           *)
(***************************************************************************)
EXTENDS Integers, Sequences, FiniteSets, Bags, TLC

\* ---------------------------------------------------------------- bounds
MaxDecoders == 2   \* decoders (camera sessions) that can exist at once
MaxAlive == 1      \* decoders alive at once in the specification Spec
MaxReq == 2        \* HTTP requests that can be in flight at once
MaxTicks == 2      \* clock advances explored
Tick == 2000       \* milliseconds per clock advance

\* ------------------------------------------------------ program constants
ttlMs == 4000      \* makeScanMemory(4000)
operatorId == 1    \* operatorId sent in every ScanRequest

\* ------------------------------------------------------------- value sets
Values == {"A", "B"}                 \* non-empty decoded texts
NoResult == "undefined"              \* callback invoked without a result
DecodeResults == Values \cup {"", NoResult}
Mensajes == { <<"a">>, <<"<">> }     \* server messages, as character lists
Absent == -1                         \* key not in the Map / no time recorded
Null == 0                            \* null reference
NoCode == "none"                     \* onclick not assigned
Decoders == 1..MaxDecoders

\* ------------------------------------------------------------ escapeHtml
RECURSIVE replaceAll(_, _, _)
replaceAll(s, ch, rep) ==
    IF s = <<>> THEN <<>>
    ELSE (IF Head(s) = ch THEN rep ELSE <<Head(s)>>) \o replaceAll(Tail(s), ch, rep)

escapeHtml(s) ==
    LET s1 == replaceAll(s, "&", <<"&", "a", "m", "p", ";">>)
        s2 == replaceAll(s1, "<", <<"&", "l", "t", ";">>)
        s3 == replaceAll(s2, ">", <<"&", "g", "t", ";">>)
        s4 == replaceAll(s3, "\"", <<"&", "q", "u", "o", "t", ";">>)
    IN  replaceAll(s4, "'", <<"&", "#", "0", "3", "9", ";">>)

\* ----------------------------------------------------------------- state
VARIABLES
    clock,            \* Date.now()
    last,             \* makeScanMemory: Map value -> time of last processed read
    decoders,         \* decoder d: "idle" | "init" (camera opening) | "running"
    liveStreams,      \* camera streams whose tracks are live
    controls,         \* let controls: the decoder it refers to, or Null
    currentStream,    \* let currentStream: the stream (of decoder d), or Null
    videoSrc,         \* video.srcObject
    videoVisible,     \* video.style.display # "none"
    aborter,          \* let aborter: TRUE when it holds an AbortController
    requests,         \* bag of the fetches in flight, each with its signal
                      \* and the continuation that awaits it
    statusEl,         \* #status: class and text
    detailsEl,        \* #details
    confirmShown,     \* confirmPanel.style.display # "none"
    confirmInfo,      \* confirmInfo.innerHTML: the scan it asks about
    approveOnclick,   \* btnApprove.onclick: the code its closure captured
    denyOnclick,      \* btnDeny.onclick: the code its closure captured
    approveDisabled,  \* btnApprove.disabled
    denyDisabled,     \* btnDeny.disabled
    startDisabled,    \* startBtn.disabled
    stopDisabled,     \* stopBtn.disabled
    beep,             \* beep.play() was called by the task that ran last
    resolved,         \* history: the task that ran last was the Deny handler
                      \* or the end of the Approve handler
    decodedAt,        \* history: time of the last decode of each value
    sentAt            \* history: time of the last validate request for each value

vars == << clock, last, decoders, liveStreams, controls, currentStream, videoSrc,
           videoVisible, aborter, requests, statusEl, detailsEl,
           confirmShown, confirmInfo, approveOnclick, denyOnclick,
           approveDisabled, denyDisabled, startDisabled, stopDisabled,
           beep, resolved, decodedAt, sentAt >>

St ==
    [ clock |-> clock, last |-> last, decoders |-> decoders,
      liveStreams |-> liveStreams, controls |-> controls,
      currentStream |-> currentStream, videoSrc |-> videoSrc,
      videoVisible |-> videoVisible, aborter |-> aborter,
      requests |-> requests, statusEl |-> statusEl, detailsEl |-> detailsEl,
      confirmShown |-> confirmShown, confirmInfo |-> confirmInfo,
      approveOnclick |-> approveOnclick, denyOnclick |-> denyOnclick,
      approveDisabled |-> approveDisabled, denyDisabled |-> denyDisabled,
      startDisabled |-> startDisabled, stopDisabled |-> stopDisabled,
      beep |-> beep, resolved |-> resolved, decodedAt |-> decodedAt,
      sentAt |-> sentAt ]

Becomes(s) ==
    /\ clock' = s.clock /\ last' = s.last /\ decoders' = s.decoders
    /\ liveStreams' = s.liveStreams /\ controls' = s.controls
    /\ currentStream' = s.currentStream /\ videoSrc' = s.videoSrc
    /\ videoVisible' = s.videoVisible /\ aborter' = s.aborter
    /\ requests' = s.requests
    /\ statusEl' = s.statusEl /\ detailsEl' = s.detailsEl
    /\ confirmShown' = s.confirmShown /\ confirmInfo' = s.confirmInfo
    /\ approveOnclick' = s.approveOnclick /\ denyOnclick' = s.denyOnclick
    /\ approveDisabled' = s.approveDisabled /\ denyDisabled' = s.denyDisabled
    /\ startDisabled' = s.startDisabled /\ stopDisabled' = s.stopDisabled
    /\ beep' = s.beep /\ resolved' = s.resolved
    /\ decodedAt' = s.decodedAt /\ sentAt' = s.sentAt

\* ------------------------------------------------------- small UI helpers
\* setStatus: className keeps "ok" and "err", everything else shows as "info".
Status(kind, msg, detail) ==
    [cls |-> IF kind = "ok" THEN "ok" ELSE IF kind = "err" THEN "err" ELSE "info",
     msg |-> msg, detail |-> detail]

setStatus(s, kind, msg, detail) == [s EXCEPT !.statusEl = Status(kind, msg, detail)]

NoDetails == [card |-> "", code |-> NoCode]
NoInfo == NoCode

clearDetails(s) == [s EXCEPT !.detailsEl = NoDetails]

showConfirm(s, html) == [s EXCEPT !.confirmInfo = html, !.confirmShown = TRUE]

hideConfirm(s) == [s EXCEPT !.confirmShown = FALSE, !.confirmInfo = NoInfo]

setCameraVisible(s, show) == [s EXCEPT !.videoVisible = show]

explain(name) ==
    IF name \in {"NotAllowedError", "SecurityError"} THEN "Permiso denegado o contexto no seguro"
    ELSE IF name = "NotFoundError" THEN "No se encontro una camara disponible"
    ELSE IF name = "NotReadableError" THEN "La camara esta siendo usada por otra aplicacion"
    ELSE IF name = "OverconstrainedError" THEN "El deviceId no coincide con ninguna camara"
    ELSE "e.message"

CameraErrors == {"NotAllowedError"}

\* ------------------------------------------------ abort controllers, fetch
\* A request's signal is "none" (sent while aborter was null), "cur" (the
\* signal of the controller aborter holds), "old" (of a controller that
\* aborter no longer holds and that was not aborted: nothing can abort it
\* any more) or "aborted".
renameSignals(s, from, to) ==
    LET rs == DOMAIN s.requests
        moved(r) == IF r.signal = from THEN [r EXCEPT !.signal = to] ELSE r
        count(q) == LET src == {r \in rs : moved(r) = q}
                        RECURSIVE sum(_)
                        sum(S) == IF S = {} THEN 0
                                  ELSE LET r == CHOOSE x \in S : TRUE
                                       IN  s.requests[r] + sum(S \ {r})
                    IN  sum(src)
    IN  [s EXCEPT !.requests = [q \in {moved(r) : r \in rs} |-> count(q)]]

\* aborter = new AbortController()
newAbortController(s) == [renameSignals(s, "cur", "old") EXCEPT !.aborter = TRUE]

\* aborter?.abort(); aborter = null
abortAndClear(s) == [renameSignals(s, "cur", "aborted") EXCEPT !.aborter = FALSE]

\* aborter?.signal
signalOf(s) == IF s.aborter THEN "cur" ELSE "none"

inFlight(s) == BagCardinality(s.requests)

\* postScan(body, signal): the fetch is issued and its caller awaits it.
postScan(s, body, signal, cont) ==
    [s EXCEPT !.requests = @ (+) SetToBag({[validateOnly |-> body.validateOnly,
                                            code |-> body.code,
                                            signal |-> signal, cont |-> cont]})]

\* The fetch r has settled and its continuation runs.
settled(s, r) == [s EXCEPT !.requests = @ (-) SetToBag({r})]

\* ------------------------------------------------- decoder (zxing) calls
idleDecoders(s) == {d \in Decoders : s.decoders[d] = "idle"}

\* controls.stop(): the decode loop ends and the library disposes its stream.
controlsStop(s) ==
    IF s.controls = Null THEN s
    ELSE [s EXCEPT !.decoders[s.controls] = "idle",
                   !.liveStreams = @ \ {s.controls}]

\* currentStream?.getTracks().forEach(t => t.stop())
stopTracks(s) ==
    IF s.currentStream = Null THEN s
    ELSE [s EXCEPT !.liveStreams = @ \ {s.currentStream}]

\* ------------------------------------------------- pause, stop and start
pauseAndHideCamera(s) ==
    LET s1 == abortAndClear(s)
        s2 == [controlsStop(s1) EXCEPT !.controls = Null]
        s3 == [stopTracks(s2) EXCEPT !.currentStream = Null]
        s4 == [s3 EXCEPT !.videoSrc = Null]
        s5 == setCameraVisible(s4, FALSE)
        s6 == [s5 EXCEPT !.startDisabled = FALSE, !.stopDisabled = TRUE]
    IN  setStatus(s6, "info", "Camara en pausa.", <<>>)

stop(s) ==
    LET s1 == abortAndClear(s)
        s2 == [controlsStop(s1) EXCEPT !.controls = Null]
        s3 == [stopTracks(s2) EXCEPT !.currentStream = Null]
        s4 == [s3 EXCEPT !.videoSrc = Null]
        s5 == setStatus(s4, "info", "Camara detenida.", <<>>)
    IN  [s5 EXCEPT !.startDisabled = FALSE, !.stopDisabled = TRUE]

\* start() up to its await on reader.decodeFromVideoDevice: the decoder is
\* created and the camera is being opened.
start(s) ==
    IF s.controls # Null THEN s
    ELSE LET d == CHOOSE x \in idleDecoders(s) : \A y \in idleDecoders(s) : x <= y
             s1 == newAbortController(s)
             s2 == setStatus(s1, "info", "Iniciando camara...", <<>>)
         IN  [s2 EXCEPT !.decoders[d] = "init"]

\* start() can be followed in the model: it returns at once, or fewer than
\* cap decoders are alive.
canStart(s, cap) ==
    s.controls # Null \/ Cardinality(Decoders \ idleDecoders(s)) < cap

showCameraAndRestart(s) == start(setCameraVisible(s, TRUE))

restartWithSelected(s) == start(stop(s))

\* ---------------------------------------------------------- scan memory
\* Defective variant: the read is never recorded.
seenRecentlyForgetting(lastMap, value, now) ==
    LET t == IF lastMap[value] = Absent THEN 0 ELSE lastMap[value]
    IN  [seen |-> now - t < ttlMs, last |-> lastMap]

\* Defective variant: the window is taken in seconds.
seenRecentlySeconds(lastMap, value, now) ==
    LET t == IF lastMap[value] = Absent THEN 0 ELSE lastMap[value]
    IN  IF now - t < ttlMs \div 1000
        THEN [seen |-> TRUE, last |-> lastMap]
        ELSE [seen |-> FALSE, last |-> [lastMap EXCEPT ![value] = now]]

\* Defective variant: a read exactly ttlMs after the last one is suppressed.
seenRecentlyInclusive(lastMap, value, now) ==
    LET t == IF lastMap[value] = Absent THEN 0 ELSE lastMap[value]
    IN  IF now - t <= ttlMs
        THEN [seen |-> TRUE, last |-> lastMap]
        ELSE [seen |-> FALSE, last |-> [lastMap EXCEPT ![value] = now]]

\* seenRecently(value): the answer and the Map afterwards.  A read is
\* recorded only when it is not suppressed.
seenRecently(lastMap, value, now) ==
    LET t == IF lastMap[value] = Absent THEN 0 ELSE lastMap[value]
    IN  IF now - t < ttlMs
        THEN [seen |-> TRUE, last |-> lastMap]
        ELSE [seen |-> FALSE, last |-> [lastMap EXCEPT ![value] = now]]

\* memory.clear()
memoryClear(s) == [s EXCEPT !.last = [v \in Values |-> Absent]]

\* ------------------------------------------------------------ validation
\* ScanResponse; the server echoes the scanned code, so data.code is the
\* code of the request.
Responses == [codigo : {0, 1}, estado : BOOLEAN, mensaje : Mensajes]

NoResp == [codigo |-> 1, estado |-> FALSE, mensaje |-> <<>>]

\* What a fetch can end with: "abort" exactly when its signal was aborted,
\* otherwise a response body or a thrown Error (network, HTTP status).
Outcomes(r) == IF r.signal = "aborted" THEN {"abort"} ELSE {"data", "error"}

Bodies(outcome) == IF outcome = "data" THEN Responses ELSE {NoResp}

\* Defective variant: the scan itself consumes the ticket.
validateRequestApplying(code) ==
    [code |-> code, operatorId |-> operatorId, validateOnly |-> FALSE]

validateRequest(code) == [code |-> code, operatorId |-> operatorId, validateOnly |-> TRUE]

applyRequest(code) == [code |-> code, operatorId |-> operatorId, validateOnly |-> FALSE]

\* validateCode(code) up to its await on postScan.
validateCode(s, code) ==
    LET s1 == setStatus(s, "info", "Validando boleta...", <<>>)
        s2 == clearDetails(hideConfirm(s1))
        s3 == postScan(s2, validateRequest(code), signalOf(s2), "validateCode")
    IN  [s3 EXCEPT !.sentAt[code] = s.clock]

\* Defective variant: the handler is assigned only while the button has none.
wireApproveOnce(s, code) ==
    IF s.approveOnclick = NoCode THEN [s EXCEPT !.approveOnclick = code] ELSE s

\* btnApprove.onclick = async () => { ... code ... }
wireApprove(s, code) == [s EXCEPT !.approveOnclick = code]

\* Defective variant: the handler is assigned only while the button has none.
wireDenyOnce(s, code) ==
    IF s.denyOnclick = NoCode THEN [s EXCEPT !.denyOnclick = code] ELSE s

\* btnDeny.onclick = async () => { ... }
wireDeny(s, code) == [s EXCEPT !.denyOnclick = code]

\* Defective variant: a response that is not valid pauses the camera too.
validateCodeResumePausing(s, code, outcome, data) ==
    IF outcome = "abort" THEN s
    ELSE IF outcome = "error"
    THEN hideConfirm(clearDetails(
            setStatus(s, "err", "Fallo la conexion a la API.", <<>>)))
    ELSE LET s1 == setStatus(pauseAndHideCamera(s), "err", "No valida:",
                             escapeHtml(data.mensaje))
             s2 == [s1 EXCEPT !.detailsEl = [card |-> "no valida", code |-> code]]
         IN  hideConfirm(s2)

\* validateCode(code) from the point its postScan settles.
validateCodeResume(s, code, outcome, data) ==
    IF outcome = "abort" THEN s
    ELSE IF outcome = "error"
    THEN hideConfirm(clearDetails(
            setStatus(s, "err", "Fallo la conexion a la API.", <<>>)))
    ELSE IF data.codigo = 0 /\ data.estado
    THEN LET s1 == setStatus(s, "ok", "Valida. Confirma ingreso.", <<>>)
             s2 == [s1 EXCEPT !.detailsEl = [card |-> "valida", code |-> code],
                              !.beep = TRUE]
             s3 == pauseAndHideCamera(s2)
             s4 == showConfirm(s3, code)
         IN  wireDeny(wireApprove(s4, code), code)
    ELSE LET s1 == setStatus(s, "err", "No valida:", escapeHtml(data.mensaje))
             s2 == [s1 EXCEPT !.detailsEl = [card |-> "no valida", code |-> code]]
         IN  hideConfirm(s2)

\* Defective variant: the click leaves both buttons enabled.
approveClickLeavingEnabled(s, code) ==
    LET s2 == setStatus(s, "info", "Aplicando ingreso...", <<>>)
    IN  postScan(s2, applyRequest(code), signalOf(s2), "btnApprove")

\* btnApprove.onclick up to its await on postScan.
approveClick(s, code) ==
    LET s1 == [s EXCEPT !.approveDisabled = TRUE, !.denyDisabled = TRUE]
        s2 == setStatus(s1, "info", "Aplicando ingreso...", <<>>)
    IN  postScan(s2, applyRequest(code), signalOf(s2), "btnApprove")

\* The try and catch blocks of btnApprove.onclick once postScan has settled.
applyOutcome(s, outcome, applied) ==
    IF outcome = "abort" THEN s
    ELSE IF outcome = "error"
    THEN setStatus(s, "err", "Error al aplicar:", <<>>)
    ELSE IF applied.codigo = 0 /\ applied.estado
    THEN [setStatus(s, "ok", "Boleta usada correctamente.", <<>>)
            EXCEPT !.detailsEl = [card |-> "usada", code |-> NoCode]]
    ELSE setStatus(s, "err", "No se pudo usar:", escapeHtml(applied.mensaje))

\* The finally block of btnApprove.onclick.
applyFinally(s) ==
    LET s1 == hideConfirm(s)
        s2 == [s1 EXCEPT !.approveDisabled = FALSE, !.denyDisabled = FALSE]
    IN  showCameraAndRestart(s2)

\* Defective variant: an aborted request leaves the handler before its
\* finally block.
approveResumeAbortReturns(s, outcome, applied) ==
    IF outcome = "abort" THEN s ELSE applyFinally(applyOutcome(s, outcome, applied))

approveResume(s, outcome, applied) == applyFinally(applyOutcome(s, outcome, applied))

denyClick(s) ==
    LET s1 == hideConfirm(s)
        s2 == setStatus(s1, "info", "Ingreso denegado (no se consumio la boleta).", <<>>)
    IN  showCameraAndRestart(s2)

clearClick(s) == setStatus(clearDetails(hideConfirm(s)), "info", "Listo", <<>>)

\* ------------------------------------------------------- decoder callback
\* resultCb up to the await inside validateCode.
resultCb(s, d, result) ==
    LET s1 == [s EXCEPT !.controls = d]
        value == IF result = NoResult THEN "" ELSE result
    IN  IF value = "" THEN s1
        ELSE LET m == seenRecently(s1.last, value, s1.clock)
                 s2 == [s1 EXCEPT !.last = m.last, !.decodedAt[value] = s1.clock]
             IN  IF m.seen THEN s2
                 ELSE validateCode([s2 EXCEPT !.beep = TRUE], value)

\* The callback would issue a fetch.
wouldSend(s, result) ==
    /\ result \in Values
    /\ ~seenRecently(s.last, result, s.clock).seen

\* start() from the point decodeFromVideoDevice has resolved with the
\* controls of decoder d.
startResume(s, d) ==
    LET s1 == [s EXCEPT !.controls = d, !.currentStream = s.videoSrc]
        s2 == setStatus(s1, "ok", "Escaneando... apunta el QR", <<>>)
    IN  [s2 EXCEPT !.startDisabled = TRUE, !.stopDisabled = FALSE]

\* The catch block of start().
startFailed(s, name) ==
    setStatus(s, "err", "No se pudo iniciar la camara.", explain(name))

\* destroy() detaches the listeners of start, stop, device and torch; the
\* same functions stay callable through the returned object, so no
\* transition is lost and the registration is not part of the state.
destroy(s) == stop(memoryClear(s))

\* ------------------------------------------------------------------ Init
\* The page the controller is set up on (its markup is not part of the
\* sources): the video is displayed, the confirm panel is not, Start is
\* enabled and Stop is not.  start() and stop() are also callable through
\* the returned object whatever the buttons' state.
page ==
    [videoVisible |-> TRUE, confirmShown |-> FALSE, confirmInfo |-> NoInfo,
     approveDisabled |-> FALSE, denyDisabled |-> FALSE,
     startDisabled |-> FALSE, stopDisabled |-> TRUE,
     statusEl |-> Status("info", "", <<>>), detailsEl |-> NoDetails]

\* #btnApprove and #btnDeny are part of #confirmPanel: they can be clicked
\* only while the panel is displayed.
insideConfirmPanel == confirmShown

Init ==
    /\ clock = ttlMs
    /\ last = [v \in Values |-> Absent]
    /\ decoders = [d \in Decoders |-> "idle"]
    /\ liveStreams = {}
    /\ controls = Null
    /\ currentStream = Null
    /\ videoSrc = Null
    /\ videoVisible = page.videoVisible
    /\ aborter = FALSE
    /\ requests = EmptyBag
    /\ statusEl = page.statusEl
    /\ detailsEl = page.detailsEl
    /\ confirmShown = page.confirmShown
    /\ confirmInfo = page.confirmInfo
    /\ approveOnclick = NoCode
    /\ denyOnclick = NoCode
    /\ approveDisabled = page.approveDisabled
    /\ denyDisabled = page.denyDisabled
    /\ startDisabled = page.startDisabled
    /\ stopDisabled = page.stopDisabled
    /\ beep = FALSE
    /\ resolved = FALSE
    /\ decodedAt = [v \in Values |-> Absent]
    /\ sentAt = [v \in Values |-> Absent]

\* --------------------------------------------------------------- actions
\* The state a task starts from: no beep played yet, nothing resolved yet.
Task == [St EXCEPT !.beep = FALSE, !.resolved = FALSE]

\* Time passes.
Advance ==
    /\ clock < ttlMs + MaxTicks * Tick
    /\ Becomes([Task EXCEPT !.clock = clock + Tick])

\* Click on #startBtn.
StartClick(cap) ==
    /\ ~startDisabled
    /\ canStart(St, cap)
    /\ Becomes(start(Task))

\* The returned object's start().
ApiStart(cap) ==
    /\ canStart(St, cap)
    /\ Becomes(start(Task))

\* Click on #stopBtn.
StopClick ==
    /\ ~stopDisabled
    /\ Becomes(stop(Task))

\* The returned object's stop().
ApiStop == Becomes(stop(Task))

\* change on #deviceSelect, or the returned object's restartWithSelected().
DeviceChange(cap) ==
    /\ canStart(stop(St), cap)
    /\ Becomes(restartWithSelected(Task))

\* The returned object's destroy().  The histories start afresh.
Destroy ==
    Becomes([destroy(Task) EXCEPT !.decodedAt = [v \in Values |-> Absent],
                                  !.sentAt = [v \in Values |-> Absent]])

\* The camera of decoder d opens: the decoding library attaches the stream
\* to the video, runs the first decode attempt (calling resultCb) and
\* resolves decodeFromVideoDevice, all in one task.
CameraOpened(d, result) ==
    /\ decoders[d] = "init"
    /\ wouldSend(St, result) => inFlight(St) < MaxReq
    /\ LET s1 == [Task EXCEPT !.decoders[d] = "running",
                              !.liveStreams = @ \cup {d},
                              !.videoSrc = d]
       IN  Becomes(startResume(resultCb(s1, d, result), d))

\* The camera of decoder d cannot be opened: decodeFromVideoDevice rejects.
CameraFailed(d, name) ==
    /\ decoders[d] = "init"
    /\ Becomes(startFailed([Task EXCEPT !.decoders[d] = "idle"], name))

\* A later decode attempt of running decoder d.  A text can be decoded only
\* while the video element has a source.
DecoderCallback(d, result) ==
    /\ decoders[d] = "running"
    /\ result \in Values => videoSrc # Null
    /\ wouldSend(St, result) => inFlight(St) < MaxReq
    /\ Becomes(resultCb(Task, d, result))

\* The fetch r of a validate request settles.
ValidateSettles(r, outcome, data) ==
    /\ r \in DOMAIN requests
    /\ r.cont = "validateCode"
    /\ outcome \in Outcomes(r)
    /\ Becomes(validateCodeResume(settled(Task, r), r.code, outcome, data))

\* Click on #btnApprove.
ApproveClick ==
    /\ insideConfirmPanel /\ ~approveDisabled
    /\ approveOnclick # NoCode
    /\ inFlight(St) < MaxReq
    /\ Becomes(approveClick(Task, approveOnclick))

\* The fetch r of an apply request settles.
ApplySettles(cap, r, outcome, data) ==
    /\ r \in DOMAIN requests
    /\ r.cont = "btnApprove"
    /\ outcome \in Outcomes(r)
    /\ canStart(St, cap)
    /\ Becomes([approveResume(settled(Task, r), outcome, data) EXCEPT !.resolved = TRUE])

\* Click on #btnDeny.
DenyClick(cap) ==
    /\ insideConfirmPanel /\ ~denyDisabled
    /\ denyOnclick # NoCode
    /\ canStart(St, cap)
    /\ Becomes([denyClick(Task) EXCEPT !.resolved = TRUE])

\* Click on #btnClear.
ClearClick == Becomes(clearClick(Task))

Settlements == {<<o, b>> \in {"data", "error", "abort"} \X (Responses \cup {NoResp}) :
                   b \in Bodies(o)}

\* Every handler and continuation, with at most cap decoders alive at once.
Step(cap) ==
    \/ StartClick(cap)
    \/ ApiStart(cap)
    \/ StopClick
    \/ ApiStop
    \/ DeviceChange(cap)
    \/ Destroy
    \/ \E d \in Decoders, result \in DecodeResults : CameraOpened(d, result)
    \/ \E d \in Decoders, name \in CameraErrors : CameraFailed(d, name)
    \/ \E d \in Decoders, result \in DecodeResults : DecoderCallback(d, result)
    \/ \E r \in DOMAIN requests, x \in Settlements : ValidateSettles(r, x[1], x[2])
    \/ ApproveClick
    \/ \E r \in DOMAIN requests, x \in Settlements : ApplySettles(cap, r, x[1], x[2])
    \/ DenyClick(cap)
    \/ ClearClick

\* The controller with a running clock and one decoder alive at a time.
Next == Advance \/ Step(MaxAlive)

Spec == Init /\ [][Next]_vars

\* The controller within one throttle window (the clock stands still), with
\* decoders alive side by side: start() entered again while a camera is
\* still being opened.
NextRace == Step(MaxDecoders)

SpecRace == Init /\ [][NextRace]_vars

\* ------------------------------------------------------------ properties
\* Requests in flight of one kind for one code.
inFlightFor(reqs, validateOnly, code) ==
    LET rs == {r \in DOMAIN reqs : r.validateOnly = validateOnly /\ r.code = code}
        RECURSIVE sum(_)
        sum(S) == IF S = {} THEN 0
                  ELSE LET r == CHOOSE x \in S : TRUE IN reqs[r] + sum(S \ {r})
    IN  sum(rs)

\* The codes a shown confirm panel is about: the scan its text asks about
\* and the codes its two buttons act on.
PendingCodes ==
    IF confirmShown
    THEN {confirmInfo, approveOnclick, denyOnclick} \ {NoCode}
    ELSE {}

\* C1: at most one scanned code is pending confirmation at any time: a
\* shown confirm panel, its Approve button and its Deny button are all
\* about one and the same code.
C1_AtMostOnePending == Cardinality(PendingCodes) <= 1

\* C1 witness: B is pending after A had been validated before it.
C1_Witness ==
    /\ PendingCodes = {"B"}
    /\ sentAt["A"] # Absent
    /\ requests = EmptyBag

\* C2 (as claimed): while the confirm panel is shown no decoder is running
\* and no camera stream is held.
C2_PausedWhilePending ==
    confirmShown => controls = Null /\ currentStream = Null

\* C2 failing state: the panel is shown and the scanner runs again.
C2_Failing == confirmShown /\ controls # Null /\ currentStream # Null

\* The task is a decode attempt that decoded the text v.
Decoded(v) ==
    \E d \in Decoders : DecoderCallback(d, v) \/ CameraOpened(d, v)

\* C3: an apply request (validateOnly = false) for a code is sent only by a
\* click on Approve while the panel shows it wired to that code, and Approve
\* gets wired to a code only by a valid validate response (codigo = 0 and
\* estado true) for that code.
C3_ApplyOnlyAfterApproval ==
    [][/\ \A c \in Values :
            inFlightFor(requests', FALSE, c) > inFlightFor(requests, FALSE, c)
            => ApproveClick /\ approveOnclick = c
       /\ \A c \in Values :
            approveOnclick' = c /\ approveOnclick # c
            => \E r \in DOMAIN requests, data \in Responses :
                  /\ ValidateSettles(r, "data", data)
                  /\ r.code = c /\ r.validateOnly
                  /\ data.codigo = 0 /\ data.estado]_vars

\* C3 witness: an apply request is in flight for the code Approve is wired to.
C3_Witness ==
    /\ approveOnclick \in Values
    /\ inFlightFor(requests, FALSE, approveOnclick) = 1
    /\ approveDisabled

\* C4 (as claimed): a decoded value is suppressed, with no beep and no
\* request, whenever the same value was decoded less than ttlMs earlier,
\* whether or not that earlier read was processed.
C4_SuppressedAfterAnyDecode ==
    [][\A v \in Values :
          Decoded(v) /\ decodedAt[v] # Absent /\ clock - decodedAt[v] < ttlMs
          => ~beep' /\ requests' = requests]_vars

\* C4 (amended): a decoded value is suppressed, with no beep and no request,
\* whenever the same value was processed (a validate request was sent for
\* it) less than ttlMs earlier with no destroy() in between.
C4_SuppressedAfterProcessed ==
    [][\A v \in Values :
          Decoded(v) /\ sentAt[v] # Absent /\ clock - sentAt[v] < ttlMs
          => ~beep' /\ requests' = requests /\ sentAt' = sentAt]_vars

\* C4 witness: a value was decoded again, and suppressed, after it had been
\* processed.
C4_Witness ==
    \E v \in Values : sentAt[v] # Absent /\ decodedAt[v] > sentAt[v]

\* C5: two validate requests triggered by scanning the same value, with no
\* destroy() in between, are at least ttlMs apart.
C5_ValidateAtLeastTtlApart ==
    [][\A v \in Values :
          /\ inFlightFor(requests', TRUE, v) > inFlightFor(requests, TRUE, v)
          /\ sentAt[v] # Absent
          => clock - sentAt[v] >= ttlMs /\ sentAt'[v] = clock]_vars

\* C5 witness: two validate requests for the same value are in flight.
C5_Witness == \E v \in Values : inFlightFor(requests, TRUE, v) = 2

\* The scanner runs and can be seen: a running decoder is referenced by
\* controls, the video has a camera stream and is visible.
Resumed ==
    /\ controls # Null
    /\ decoders[controls] = "running"
    /\ videoSrc # Null
    /\ videoVisible

\* C6 (as claimed): when the Deny handler or the Approve handler has ended,
\* the video is visible and the scanner is running or its camera is being
\* opened, so that it ends up running once the camera opens.
C6_ResumedOrRestarting ==
    resolved => \/ Resumed
                \/ videoVisible /\ \E d \in Decoders : decoders[d] = "init"

\* C6 failing state: the resolution has run, no camera is being opened and
\* the decoder controls refers to reads a video without a source.
C6_Failing ==
    /\ resolved
    /\ controls # Null /\ videoSrc = Null
    /\ \A d \in Decoders : decoders[d] # "init"

\* C7: right after Deny, or after the Approve handler ended (whatever the
\* apply request ended with), the confirm panel is hidden and empty and
\* both buttons are enabled.
C7_ClearedOnResolution ==
    resolved => /\ ~confirmShown /\ confirmInfo = NoInfo
                /\ ~approveDisabled /\ ~denyDisabled

\* C7 witness: the Approve handler has just ended after a successful apply.
C7_Witness == resolved /\ detailsEl.card = "usada" /\ approveOnclick # NoCode

\* C8: whenever the confirm panel is shown, the code an Approve click would
\* send is the code of the scan whose validate response opened the panel.
C8_ApproveSendsShownCode == confirmShown => approveOnclick = confirmInfo

\* C8 witness: the panel asks about A while a validate request for B, sent
\* concurrently, can still be answered.
C8_Witness ==
    /\ confirmShown /\ confirmInfo = "A"
    /\ \E r \in DOMAIN requests :
          r.code = "B" /\ r.validateOnly /\ r.signal # "aborted"

UsedOk == Status("ok", "Boleta usada correctamente.", <<>>)

\* C9 (as claimed): when an apply request has settled, the status reports
\* the ticket as used if and only if the response had codigo = 0 and estado
\* true, and on a rejection it is an error status with the server message.
C9_UsedIffApplied ==
    [][\A r \in DOMAIN requests, x \in Settlements :
          ApplySettles(MaxDecoders, r, x[1], x[2])
          => /\ (statusEl' = UsedOk)
                  <=> (x[1] = "data" /\ x[2].codigo = 0 /\ x[2].estado)
             /\ (x[1] = "data" /\ ~(x[2].codigo = 0 /\ x[2].estado))
                  => statusEl' = Status("err", "No se pudo usar:", escapeHtml(x[2].mensaje))
      ]_vars

\* C9 failing state: the apply succeeded (the details show the used card)
\* and the status the handler ends with is that of the restart.
C9_Failing ==
    /\ resolved /\ detailsEl.card = "usada"
    /\ statusEl = Status("info", "Iniciando camara...", <<>>)

\* The panel of a pending confirmation is hidden or taken over by a scan.
PendingCleared ==
    /\ confirmShown
    /\ \/ ~confirmShown'
       \/ approveOnclick' # approveOnclick
       \/ denyOnclick' # denyOnclick
       \/ confirmInfo' # confirmInfo

\* C10 (as claimed): a pending confirmation stays pending until its own
\* Deny is clicked or the apply request of its own Approve settles; nothing
\* else clears it.
C10_ClearedOnlyByOwnResolution ==
    [][PendingCleared
       => \/ DenyClick(MaxDecoders)
          \/ \E r \in DOMAIN requests, x \in Settlements :
                r.code = approveOnclick /\ ApplySettles(MaxDecoders, r, x[1], x[2])]_vars

\* C10 failing state: Clear was clicked while a confirmation was pending;
\* the panel is gone and the camera is still paused and hidden.
C10_Failing ==
    /\ ~confirmShown /\ approveOnclick # NoCode
    /\ ~videoVisible /\ controls = Null
    /\ statusEl = Status("info", "Listo", <<>>)
\* The camera side of the controller: decoders, streams, the video element,
\* the abort controller and the Start and Stop buttons.
Camera ==
    << decoders, liveStreams, controls, currentStream, videoSrc, videoVisible,
       aborter, startDisabled, stopDisabled >>

\* C11: when a validate request ends with a response that is not valid
\* (codigo # 0 or estado false) or fails with an error other than an abort,
\* the confirm panel is hidden, the status is an error status, the Approve
\* and Deny handlers stay as they were, and the camera is left alone:
\* nothing is paused, stopped or aborted.
C11_InvalidLeavesScannerRunning ==
    [][\A r \in DOMAIN requests, x \in Settlements :
          /\ requests' = requests (-) SetToBag({r})
          /\ x[1] = "error" \/ (x[1] = "data" /\ ~(x[2].codigo = 0 /\ x[2].estado))
          /\ ValidateSettles(r, x[1], x[2])
          => /\ ~confirmShown' /\ confirmInfo' = NoInfo
             /\ statusEl'.cls = "err"
             /\ approveOnclick' = approveOnclick /\ denyOnclick' = denyOnclick
             /\ Camera' = Camera]_vars

\* C11 witness: the status reports a response that was not valid while the
\* decoder that scanned is running and shown.
C11_Witness ==
    /\ statusEl.cls = "err" /\ statusEl.msg = "No valida:"
    /\ detailsEl.card = "no valida"
    /\ Resumed /\ ~confirmShown /\ ~stopDisabled
\* Apply requests in flight, for any code.
appliesInFlight ==
    LET rs == {r \in DOMAIN requests : ~r.validateOnly}
        RECURSIVE sum(_)
        sum(S) == IF S = {} THEN 0
                  ELSE LET r == CHOOSE x \in S : TRUE IN requests[r] + sum(S \ {r})
    IN  sum(rs)

\* C12: Approve and Deny are disabled exactly from a click on Approve until
\* its apply request has completed, so at most one apply request is in
\* flight and no second Approve click and no Deny click can happen for the
\* confirmation that is being applied.
C12_OneApplyPerPending ==
    /\ appliesInFlight <= 1
    /\ appliesInFlight = 1 <=> approveDisabled
    /\ approveDisabled <=> denyDisabled

\* C12 witness: the panel is shown with both buttons disabled while the
\* apply request of its code is in flight.
C12_Witness ==
    /\ confirmShown /\ approveDisabled /\ denyDisabled
    /\ \E r \in DOMAIN requests : ~r.validateOnly /\ r.code = confirmInfo
\* The task stops or pauses the scanner: stop(), a device change, destroy(),
\* or the pause a valid validate response causes.
StopsOrPauses ==
    \/ StopClick
    \/ ApiStop
    \/ DeviceChange(MaxDecoders)
    \/ Destroy
    \/ \E r \in DOMAIN requests, data \in Responses :
          /\ requests' = requests (-) SetToBag({r})
          /\ data.codigo = 0 /\ data.estado
          /\ ValidateSettles(r, "data", data)

\* C13 (as claimed): when the scanner is stopped or paused, every validate
\* request still in flight is aborted, so that its outcome is discarded.
C13_StopAbortsValidates ==
    [][StopsOrPauses
       => \A r \in DOMAIN requests' : r.validateOnly => r.signal = "aborted"]_vars

\* C13 failing state: the scanner has been stopped and a validate request
\* that nothing has aborted is still in flight.
C13_Failing ==
    /\ statusEl = Status("info", "Camara detenida.", <<>>)
    /\ controls = Null /\ ~aborter
    /\ \E r \in DOMAIN requests : r.validateOnly /\ r.signal # "aborted"
\* C14: a decoded non-empty value that was never processed (since the
\* controller was set up or destroyed), or that was last processed at least
\* ttlMs ago, is processed: it is recorded with the current time, the beep
\* is played and one validate request is sent for it.  The clock is at least
\* ttlMs, as Date.now() is.
C14_ProcessedWhenNotRecent ==
    [][\A v \in Values :
          /\ sentAt[v] = Absent \/ clock - sentAt[v] >= ttlMs
          /\ Decoded(v)
          => /\ last'[v] = clock /\ beep'
             /\ inFlightFor(requests', TRUE, v) = inFlightFor(requests, TRUE, v) + 1]_vars

\* C14 witness: a value is processed again, ttlMs or more after it was
\* processed before, the first request still being in flight.
C14_Witness ==
    \E v \in Values :
        /\ last[v] = clock /\ sentAt[v] = clock /\ clock >= 2 * ttlMs
        /\ inFlightFor(requests, TRUE, v) = 2
\* Decoders that exist: their camera is being opened or their loop runs.
aliveDecoders == {d \in Decoders : decoders[d] # "idle"}

\* C15 (as claimed): at most one decoder is being initialised or running at
\* any time, and a running decoder is the one controls refers to.
C15_AtMostOneDecoder ==
    /\ Cardinality(aliveDecoders) <= 1
    /\ \A d \in Decoders : decoders[d] = "running" => controls = d

\* C15 failing state: two decode loops run, on two live camera streams.
C15_Failing ==
    /\ \A d \in Decoders : decoders[d] = "running"
    /\ liveStreams = Decoders
    /\ controls # Null
\* The state stop() leaves behind, for as long as nothing else has written
\* the status: start() writes it whenever it starts a decoder.
StopCompleted == statusEl = Status("info", "Camara detenida.", <<>>)

\* The task asks for the scanner to start.
StartRequest ==
    \/ StartClick(MaxDecoders)
    \/ ApiStart(MaxDecoders)
    \/ DeviceChange(MaxDecoders)
    \/ DenyClick(MaxDecoders)
    \/ \E r \in DOMAIN requests, x \in Settlements :
          ApplySettles(MaxDecoders, r, x[1], x[2])

\* C16 (as claimed): once stop() has completed, and until the next start
\* request, controls and currentStream stay null and no decoder callback
\* runs, also when stop() was called while a camera was being opened.
C16_StaysStopped ==
    [][StopCompleted /\ ~StartRequest
       => /\ controls' = Null /\ currentStream' = Null
          /\ ~\E d \in Decoders, result \in DecodeResults :
                DecoderCallback(d, result) \/ CameraOpened(d, result)]_vars

\* C16 failing state: the scanner runs although stop() was the last request:
\* no abort controller exists, which every start request creates, and the
\* video was not hidden by a pause.
C16_Failing ==
    /\ controls # Null /\ decoders[controls] = "running" /\ currentStream # Null
    /\ ~aborter /\ videoVisible /\ ~confirmShown
    /\ statusEl = Status("ok", "Escaneando... apunta el QR", <<>>)
\* C17 (as claimed): the details shown for a validated code belong to the
\* most recently processed code: no other code was processed later.
C17_DetailsOfLatestScan ==
    detailsEl.code \in Values
    => \A w \in Values : sentAt[w] <= sentAt[detailsEl.code]

\* C17 failing state: both responses have arrived, B was processed after A,
\* and the status and details are those of A's response.
C17_Failing ==
    /\ sentAt["A"] # Absent /\ sentAt["B"] > sentAt["A"]
    /\ detailsEl = [card |-> "no valida", code |-> "A"]
    /\ statusEl.msg = "No valida:"
    /\ requests = EmptyBag
\* C18 (as claimed): whenever no start is in progress (every start, stop and
\* pause has completed), Start is disabled and Stop enabled exactly when
\* controls refers to a decoder, and Start is enabled and Stop disabled
\* exactly when it refers to none.
C18_ButtonsReflectScanner ==
    (\A d \in Decoders : decoders[d] # "init")
    => /\ startDisabled <=> controls # Null
       /\ stopDisabled <=> controls = Null

\* C18 failing state: no start is in progress, controls refers to a running
\* decoder, and the buttons are those of a stopped scanner.
C18_Failing ==
    /\ \A d \in Decoders : decoders[d] # "init"
    /\ controls # Null /\ decoders[controls] = "running"
    /\ ~startDisabled /\ stopDisabled
\* C19 (as claimed): whenever the decoder controls refers to is running, the
\* video element is visible.
C19_VisibleWhileRunning ==
    (controls # Null /\ decoders[controls] = "running") => videoVisible

\* C19 failing state: the scanner was started again by the Start button
\* after a pause whose panel is gone; it scans with the video hidden.
C19_Failing ==
    /\ controls # Null /\ decoders[controls] = "running" /\ videoSrc = controls
    /\ startDisabled /\ ~stopDisabled
    /\ ~videoVisible /\ ~confirmShown

====
